---- MODULE Spec2Model ----
(***************************************************************************)
(* Model of generate_pdf.py: the math-protection codec (protect_math,      *)
(* restore_math), the translation merger (merge_translations), the page    *)
(* renderer with its shared browser (get_browser, close_browser,           *)
(* render_html_to_pdf), the spread composer (generate_aligned_pdf) and the *)
(* batch driver (main).                                                    *)
(*                                                                         *)
(* Texts are sequences of one-character strings, so that the regular       *)
(* expressions and str.replace of the source are computed character by     *)
(* character.                                                              *)
(***************************************************************************)
EXTENDS Integers, Sequences, FiniteSets, TLC

VARIABLES
    \* ---- math codec (protect_math / restore_math) ----
    mathPc,        \* "idle" | "input" | "protected" | "restored"
    md_text,       \* protect_math's argument
    protected,     \* protect_math's first result: the text with placeholders
    placeholders,  \* protect_math's second result: the dict, in insertion order
    html,          \* restore_math's result
    \* ---- translation merger (merge_translations) ----
    mergePc,       \* "idle" | "input" | "merged"
    translations,  \* the fragment files: file name -> sequence of item ids
    pages,         \* merge_translations' result: page number -> content
    \* ---- main ----
    mode,          \* sys.argv[2]: "all" | "dual" | "summary"
    pc,            \* where the batch run stands ("idle" when it is not run)
    phase,         \* the loop of main that runs: "dual" | "summary"
    paperAt,       \* position of `name` in papers
    attempts,      \* <<phase, name>> -> calls of generate_*_pdf made for it
    skipped,       \* <<phase, name>> passed over by main for a missing input
    reported,      \* <<phase, name>> whose exception main caught and printed
    \* ---- generate_aligned_pdf, for the document in hand ----
    paperLen,      \* pages of papers/<name>.pdf
    pages_dict,    \* the TranslationMap
    src_n,         \* len(src), 0 before src is opened
    out,           \* the output document: the sequence of SpreadPages
    pg_num,        \* the loop variable
    tp,            \* the overflow loop variable
    trans_doc,     \* the open RenderedTranslation: the page it renders, its length
    trans_pages,   \* source page -> len(trans_doc) of its RenderedTranslation
    rendered,      \* source pages for which render_html_to_pdf was called
    \* ---- files and documents held ----
    srcOpen,       \* names whose SourceDocument is open
    transOpen,     \* <<name, page>> whose RenderedTranslation is open
    tmpPdf,        \* <<name, page>> whose _<name>_p<page>.pdf exists
    htmlTmp,       \* temporary .html files that exist
    saved,         \* <<phase, name>> whose output PDF was written
    \* ---- the shared browser ----
    browser,       \* _browser: None, or the instance launched
    launches,      \* chromium.launch() calls that succeeded
    alive,         \* instances launched and not closed
    renderUsed,    \* instances that render calls have drawn pages from
    inFlight,      \* render_html_to_pdf calls entered and not left
    renderCalled   \* whether render_html_to_pdf was ever called

mathVars == <<mathPc, md_text, protected, placeholders, html>>
mergeVars == <<mergePc, translations, pages>>
mainVars == <<mode, pc, phase, paperAt, attempts, skipped, reported>>
docVars == <<paperLen, pages_dict, src_n, out, pg_num, tp, trans_doc,
             trans_pages, rendered>>
heldVars == <<srcOpen, transOpen, tmpPdf, htmlTmp, saved>>
browserVars == <<browser, launches, alive, renderUsed, inFlight, renderCalled>>
batchVars == <<mainVars, docVars, heldVars, browserVars>>

vars == <<mathVars, mergeVars, batchVars>>

(***************************************************************************)
(* Bounds of the model.                                                    *)
(***************************************************************************)
MaxTextLen == 8      \* longest md_text given to protect_math
MaxItems == 4        \* most items (markers, text pieces) over the fragment files
MaxPages == 4        \* most pages of a source PDF
MaxK == 2            \* most pages of one RenderedTranslation

(***************************************************************************)
(* Each specification below runs one part of the program; the variables of *)
(* the other parts rest at these values.                                   *)
(***************************************************************************)
EmptyDict == [x \in {} |-> <<>>]

MathIdle ==
    /\ mathPc = "idle"
    /\ md_text = <<>>
    /\ protected = <<>>
    /\ placeholders = <<>>
    /\ html = <<>>

MergeIdle ==
    /\ mergePc = "idle"
    /\ translations = EmptyDict
    /\ pages = EmptyDict

None == [page |-> 0, n |-> 0]      \* no RenderedTranslation open
NoBrowser == 0                     \* _browser = None

Papers == <<"a", "b">>             \* discover_papers(workspace), sorted
Phases == {"dual", "summary"}

DocIdle ==
    /\ paperLen = 0
    /\ pages_dict = EmptyDict
    /\ src_n = 0
    /\ out = <<>>
    /\ pg_num = 0
    /\ tp = 0
    /\ trans_doc = None
    /\ trans_pages = EmptyDict
    /\ rendered = {}

BatchIdle ==
    /\ mode = "all"
    /\ pc = "idle"
    /\ phase = "dual"
    /\ paperAt = 0
    /\ attempts = [k \in Phases \X {Papers[i] : i \in DOMAIN Papers} |-> 0]
    /\ skipped = {}
    /\ reported = {}
    /\ DocIdle
    /\ srcOpen = {}
    /\ transOpen = {}
    /\ tmpPdf = {}
    /\ htmlTmp = 0
    /\ saved = {}
    /\ browser = NoBrowser
    /\ launches = 0
    /\ alive = {}
    /\ renderUsed = {}
    /\ inFlight = 0
    /\ renderCalled = FALSE

(***************************************************************************)
(* Characters and texts.                                                   *)
(***************************************************************************)
DOLLAR == "$"
NEWLINE == "\n"

MathAlphabet == {DOLLAR, "x", NEWLINE}

TextsOver(alphabet, n) == UNION {[1..k -> alphabet] : k \in 0..n}

DigitChar(d) ==
    CASE d = 0 -> "0" [] d = 1 -> "1" [] d = 2 -> "2" [] d = 3 -> "3"
      [] d = 4 -> "4" [] d = 5 -> "5" [] d = 6 -> "6" [] d = 7 -> "7"
      [] d = 8 -> "8" [] d = 9 -> "9"

RECURSIVE DecDigits(_)
DecDigits(n) ==
    IF n < 10 THEN <<DigitChar(n)>>
    ELSE Append(DecDigits(n \div 10), DigitChar(n % 10))

RECURSIVE ZeroPad(_, _)
ZeroPad(s, width) == IF Len(s) >= width THEN s ELSE ZeroPad(<<"0">> \o s, width)

\* f"{n:04d}"
Format04d(n) == ZeroPad(DecDigits(n), 4)

MATHBLOCK == <<"M", "A", "T", "H", "B", "L", "O", "C", "K">>
MATHINLINE == <<"M", "A", "T", "H", "I", "N", "L", "I", "N", "E">>

(***************************************************************************)
(* protect_math.  The dict `placeholders` is a sequence of <<key, original>>*)
(* pairs in insertion order (keys are distinct: the counter never repeats),*)
(* and counter[0] is the number of pairs inserted so far.                  *)
(***************************************************************************)

\* r'\$\$(.+?)\$\$' with DOTALL, tried at position i: the index of the last
\* character of the match, or 0 when there is no match at i.
RECURSIVE FindBlockClose(_, _)
FindBlockClose(t, j) ==
    IF j + 1 > Len(t) THEN 0
    ELSE IF t[j] = DOLLAR /\ t[j + 1] = DOLLAR THEN j
    ELSE FindBlockClose(t, j + 1)

BlockMatchEnd(t, i) ==
    IF i + 1 <= Len(t) /\ t[i] = DOLLAR /\ t[i + 1] = DOLLAR
    THEN LET j == FindBlockClose(t, i + 3)
         IN  IF j = 0 THEN 0 ELSE j + 1
    ELSE 0

\* r'(?<!\$)\$(?!\$)(.+?)\$(?!\$)' without DOTALL, tried at position i.
RECURSIVE FindInlineClose(_, _)
FindInlineClose(t, j) ==
    IF j > Len(t) THEN 0
    ELSE IF t[j - 1] = NEWLINE THEN 0
    ELSE IF t[j] = DOLLAR /\ (j = Len(t) \/ t[j + 1] # DOLLAR) THEN j
    ELSE FindInlineClose(t, j + 1)

InlineMatchEnd(t, i) ==
    IF /\ t[i] = DOLLAR
       /\ (i = 1 \/ t[i - 1] # DOLLAR)
       /\ i + 1 <= Len(t)
       /\ t[i + 1] # DOLLAR
    THEN FindInlineClose(t, i + 2)
    ELSE 0

\* _replace_block / _replace_inline: the key for the next placeholder.
ReplaceBlockKey(ph) == MATHBLOCK \o Format04d(Len(ph))
ReplaceInlineKey(ph) == MATHINLINE \o Format04d(Len(ph))

\* re.sub(block pattern, _replace_block, t), scanning from i.
RECURSIVE SubBlock(_, _, _, _)
SubBlock(t, i, acc, ph) ==
    IF i > Len(t) THEN [text |-> acc, placeholders |-> ph]
    ELSE LET e == BlockMatchEnd(t, i)
         IN  IF e = 0
             THEN SubBlock(t, i + 1, Append(acc, t[i]), ph)
             ELSE SubBlock(t, e + 1, acc \o ReplaceBlockKey(ph),
                           Append(ph, <<ReplaceBlockKey(ph), SubSeq(t, i, e)>>))

\* re.sub(inline pattern, _replace_inline, t), scanning from i.
RECURSIVE SubInline(_, _, _, _)
SubInline(t, i, acc, ph) ==
    IF i > Len(t) THEN [text |-> acc, placeholders |-> ph]
    ELSE LET e == InlineMatchEnd(t, i)
         IN  IF e = 0
             THEN SubInline(t, i + 1, Append(acc, t[i]), ph)
             ELSE SubInline(t, e + 1, acc \o ReplaceInlineKey(ph),
                            Append(ph, <<ReplaceInlineKey(ph), SubSeq(t, i, e)>>))

protect_math(t) ==
    LET blocks == SubBlock(t, 1, <<>>, <<>>)
    IN  SubInline(blocks.text, 1, <<>>, blocks.placeholders)

(***************************************************************************)
(* restore_math.                                                           *)
(***************************************************************************)
StartsWithAt(t, i, key) ==
    /\ i + Len(key) - 1 <= Len(t)
    /\ SubSeq(t, i, i + Len(key) - 1) = key

\* t.replace(key, original), scanning from i.
RECURSIVE StrReplace(_, _, _, _, _)
StrReplace(t, key, original, i, acc) ==
    IF i > Len(t) THEN acc
    ELSE IF StartsWithAt(t, i, key)
         THEN StrReplace(t, key, original, i + Len(key), acc \o original)
         ELSE StrReplace(t, key, original, i + 1, Append(acc, t[i]))

\* for key, original in placeholders.items(): html_text = html_text.replace(...)
RECURSIVE restore_math(_, _)
restore_math(html_text, ph) ==
    IF ph = <<>> THEN html_text
    ELSE restore_math(StrReplace(html_text, Head(ph)[1], Head(ph)[2], 1, <<>>),
                      Tail(ph))

(***************************************************************************)
(* merge_translations.                                                     *)
(***************************************************************************)
\* the characters of \s and of str.strip() that a text of the model can hold
Whitespace == {" ", "\t", "\n", "\r", "\f"}
Digits == {"0", "1", "2", "3", "4", "5", "6", "7", "8", "9"}

DigitValue(c) ==
    CASE c = "0" -> 0 [] c = "1" -> 1 [] c = "2" -> 2 [] c = "3" -> 3
      [] c = "4" -> 4 [] c = "5" -> 5 [] c = "6" -> 6 [] c = "7" -> 7
      [] c = "8" -> 8 [] c = "9" -> 9

\* int(s) for a string of decimal digits
RECURSIVE ParseInt(_)
ParseInt(s) ==
    IF s = <<>> THEN 0
    ELSE 10 * ParseInt(SubSeq(s, 1, Len(s) - 1)) + DigitValue(s[Len(s)])

\* the first index >= i of t that holds no character of `class` (Len(t)+1 if none)
RECURSIVE SkipClass(_, _, _)
SkipClass(t, i, class) ==
    IF i <= Len(t) /\ t[i] \in class THEN SkipClass(t, i + 1, class) ELSE i

\* s.strip()
RECURSIVE StripLeft(_)
StripLeft(s) ==
    IF s # <<>> /\ Head(s) \in Whitespace THEN StripLeft(Tail(s)) ELSE s

RECURSIVE StripRight(_)
StripRight(s) ==
    IF s # <<>> /\ s[Len(s)] \in Whitespace
    THEN StripRight(SubSeq(s, 1, Len(s) - 1))
    ELSE s

Strip(s) == StripRight(StripLeft(s))

MarkerOpen == <<"<", "!", "-", "-">>
MarkerWord == <<"P", "A", "G", "E">>
MarkerClose == <<"-", "-", ">">>

\* r'<!--\s*PAGE\s+(\d+)\s*-->' tried at position i: the index of the last
\* character of the match (0 when there is none) and the captured digits.
\* Every quantifier is followed by a character outside its class, so the
\* greedy match is the only one.
MarkerMatch(t, i) ==
    LET noMatch == [end |-> 0, group |-> <<>>]
        w  == SkipClass(t, i + Len(MarkerOpen), Whitespace)
        s1 == w + Len(MarkerWord)
        d1 == SkipClass(t, s1, Whitespace)
        d2 == SkipClass(t, d1, Digits)
        c  == SkipClass(t, d2, Whitespace)
    IN  IF ~StartsWithAt(t, i, MarkerOpen) THEN noMatch
        ELSE IF ~StartsWithAt(t, w, MarkerWord) THEN noMatch
        ELSE IF d1 = s1 \/ d2 = d1 THEN noMatch
        ELSE IF ~StartsWithAt(t, c, MarkerClose) THEN noMatch
        ELSE [end |-> c + Len(MarkerClose) - 1, group |-> SubSeq(t, d1, d2 - 1)]

\* re.split(marker pattern, t): scanning from i, `from` is where the current
\* piece began.
RECURSIVE ReSplit(_, _, _, _)
ReSplit(t, i, from, parts) ==
    IF i > Len(t) THEN Append(parts, SubSeq(t, from, Len(t)))
    ELSE LET m == MarkerMatch(t, i)
         IN  IF m.end = 0
             THEN ReSplit(t, i + 1, from, parts)
             ELSE ReSplit(t, m.end + 1, m.end + 1,
                          parts \o <<SubSeq(t, from, i - 1), m.group>>)

\* a merger that keeps the first content of a page number
DictSetKeepFirst(d, k, v) ==
    IF k \in DOMAIN d THEN d
    ELSE [x \in DOMAIN d \cup {k} |-> IF x = k THEN v ELSE d[x]]

\* a merger that refuses page number 0
DictSetPositive(d, k, v) ==
    IF k = 0 THEN d
    ELSE [x \in DOMAIN d \cup {k} |-> IF x = k THEN v ELSE d[x]]

\* pages[page_num] = content
DictSet(d, k, v) == [x \in DOMAIN d \cup {k} |-> IF x = k THEN v ELSE d[x]]

\* a loop that stops one pair early
LoopStopsEarly(idx, parts) == idx + 2 < Len(parts)

\* while idx < len(parts) - 1 (idx counts from 0 in the source, from 1 here)
LoopContinues(idx, parts) == idx < Len(parts)

RECURSIVE PairLoop(_, _, _)
PairLoop(parts, idx, d) ==
    IF LoopContinues(idx, parts)
    THEN PairLoop(parts, idx + 2,
                  DictSet(d, ParseInt(parts[idx]), Strip(parts[idx + 1])))
    ELSE d

(***************************************************************************)
(* Fragment files.  A file is written as a sequence of items; its text is  *)
(* the items' characters one after the other.                              *)
(***************************************************************************)
Marker(ws1, ws2, digits, ws3) ==
    MarkerOpen \o ws1 \o MarkerWord \o ws2 \o digits \o ws3 \o MarkerClose

Items ==
    << [kind |-> "text",   chars |-> <<"a">>],
       [kind |-> "text",   chars |-> <<"b">>],
       [kind |-> "text",   chars |-> <<" ">>],
       [kind |-> "marker", num |-> 1,
        chars |-> Marker(<<" ">>, <<" ">>, <<"1">>, <<" ">>)],
       [kind |-> "marker", num |-> 2,
        chars |-> Marker(<<>>, <<"\n">>, <<"0", "2">>, <<>>)],
       [kind |-> "marker", num |-> 0,
        chars |-> Marker(<<" ">>, <<" ">>, <<"0">>, <<" ">>)],
       \* no whitespace between PAGE and the number: not a marker
       [kind |-> "text",
        chars |-> Marker(<<" ">>, <<>>, <<"2">>, <<" ">>)] >>

ItemIds == DOMAIN Items

FileNames == {1, 2}      \* <paper>_p1.md, <paper>_p2.md

RECURSIVE Flatten(_)
Flatten(ids) ==
    IF ids = <<>> THEN <<>> ELSE Items[Head(ids)].chars \o Flatten(Tail(ids))

\* sorted(glob.glob(pattern))
RECURSIVE Sorted(_)
Sorted(names) ==
    IF names = {} THEN <<>>
    ELSE LET least == CHOOSE n \in names : \A m \in names : n <= m
         IN  <<least>> \o Sorted(names \ {least})

\* for f in files: all_text += fh.read() + "\n"
RECURSIVE ReadAll(_, _)
ReadAll(files, contents) ==
    IF files = <<>> THEN <<>>
    ELSE Flatten(contents[Head(files)]) \o <<NEWLINE>> \o ReadAll(Tail(files), contents)

merge_translations(contents) ==
    LET files == Sorted(DOMAIN contents)
    IN  IF files = <<>> THEN EmptyDict
        ELSE PairLoop(ReSplit(ReadAll(files, contents), 1, 1, <<>>), 2, EmptyDict)

ItemSeqs == UNION {[1..k -> ItemIds] : k \in 0..MaxItems}

\* the fragment files of one paper: none, one file, or two files that hold
\* the items ids, the first k of them in the first file
FragmentFiles(ids, k, files) ==
    [f \in files |-> IF f = 1 THEN SubSeq(ids, 1, k)
                               ELSE SubSeq(ids, k + 1, Len(ids))]

MergeInit ==
    /\ MathIdle
    /\ BatchIdle
    /\ mergePc = "input"
    /\ \E ids \in ItemSeqs :
        \/ translations = FragmentFiles(ids, Len(ids), {1})
        \/ \E k \in 0..Len(ids) : translations = FragmentFiles(ids, k, FileNames)
        \/ ids = <<>> /\ translations = FragmentFiles(ids, 0, {})
    /\ pages = EmptyDict

MergeTranslations ==
    /\ mergePc = "input"
    /\ pages' = merge_translations(translations)
    /\ mergePc' = "merged"
    /\ UNCHANGED <<translations, mathVars, batchVars>>

MergeNext == MergeTranslations

SpecMerge == MergeInit /\ [][MergeNext]_vars

(***************************************************************************)
(* What the fragment files say, read off their items (not their            *)
(* characters): the files in ascending name order, a newline after each.   *)
(***************************************************************************)
Separator == [kind |-> "text", chars |-> <<NEWLINE>>]

ItemsOf(name) ==
    IF name \in DOMAIN translations
    THEN [i \in 1..Len(translations[name]) |-> Items[translations[name][i]]]
         \o <<Separator>>
    ELSE <<>>

Stream == ItemsOf(1) \o ItemsOf(2)

MarkerAt == {i \in DOMAIN Stream : Stream[i].kind = "marker"}
MarkerNums == {Stream[i].num : i \in MarkerAt}

RECURSIVE CharsOf(_)
CharsOf(items) ==
    IF items = <<>> THEN <<>> ELSE Head(items).chars \o CharsOf(Tail(items))

\* the characters from item i to the next marker or the end of the text
RECURSIVE RunFrom(_)
RunFrom(i) ==
    IF i > Len(Stream) \/ i \in MarkerAt THEN <<>>
    ELSE Stream[i].chars \o RunFrom(i + 1)

ContentAfter(i) == Strip(RunFrom(i + 1))

LastMarkerOf(n) ==
    CHOOSE i \in MarkerAt :
        /\ Stream[i].num = n
        /\ \A j \in MarkerAt : Stream[j].num = n => j <= i

FinalMarker == CHOOSE i \in MarkerAt : \A j \in MarkerAt : j <= i

\* C5: last writer wins: the entry of page n is the trimmed content that
\* follows the last PAGE n marker of the concatenated text.
C5_LastWriterWins ==
    mergePc = "merged" =>
        \A n \in MarkerNums :
            n \in DOMAIN pages /\ pages[n] = ContentAfter(LastMarkerOf(n))

\* C5 witness: a page number occurs in a marker of each file, with different
\* contents, and the entry holds the later one.
C5_Witness ==
    /\ mergePc = "merged"
    /\ \E i, j \in MarkerAt :
        /\ i < Len(ItemsOf(1)) /\ j > Len(ItemsOf(1))
        /\ Stream[i].num = Stream[j].num
        /\ j = LastMarkerOf(Stream[j].num)
        /\ ContentAfter(i) # ContentAfter(j)
        /\ ContentAfter(i) # <<>>
        /\ ContentAfter(j) # <<>>
        /\ pages[Stream[j].num] = ContentAfter(j)

\* C6 as claimed: the content that follows the final marker is not stored
\* (in particular not under that marker's page number).
C6_TrailingDiscarded ==
    (mergePc = "merged" /\ MarkerAt # {} /\ ContentAfter(FinalMarker) # <<>>) =>
        \/ Stream[FinalMarker].num \notin DOMAIN pages
        \/ pages[Stream[FinalMarker].num] # ContentAfter(FinalMarker)

\* C6 amended: one entry per marker number and nothing else; the content
\* that follows the final marker is that marker's entry; the content before
\* the first marker is in no entry (every entry is the content after one of
\* its markers), and a text without markers gives the empty map.
C6_LeadingDiscarded ==
    mergePc = "merged" =>
        /\ DOMAIN pages = MarkerNums
        /\ \A n \in DOMAIN pages :
            \E i \in MarkerAt : Stream[i].num = n /\ pages[n] = ContentAfter(i)
        /\ MarkerAt # {} =>
            pages[Stream[FinalMarker].num] = ContentAfter(FinalMarker)

\* C6 witness: text before the first marker and after the final one; the
\* latter is stored, the former is not.
C6_Witness ==
    /\ mergePc = "merged"
    /\ MarkerAt # {}
    /\ Strip(RunFrom(1)) = <<"a">>
    /\ ContentAfter(FinalMarker) = <<"b">>
    /\ pages[Stream[FinalMarker].num] = <<"b">>
    /\ \A n \in DOMAIN pages : pages[n] # <<"a">>

\* C10 as claimed: for a document of N source pages, every key is in 1..N.
C10_KeysInRange ==
    \A N \in 1..MaxPages : mergePc = "merged" => DOMAIN pages \subseteq 1..N

\* C10 amended: the keys are exactly the values of the numbers written in
\* the PAGE markers, whatever they are.
C10_KeysAreMarkerNumbers ==
    mergePc = "merged" => DOMAIN pages = MarkerNums

\* C10 witness: a map with the keys 0 and 2 only.
C10_Witness ==
    /\ mergePc = "merged"
    /\ DOMAIN pages = {0, 2}

(***************************************************************************)
(* The codec as a state machine: protect, then restore with no change in   *)
(* between.                                                                *)
(***************************************************************************)
MathInit ==
    /\ MergeIdle
    /\ BatchIdle
    /\ mathPc = "input"
    /\ md_text \in TextsOver(MathAlphabet, MaxTextLen)
    /\ protected = <<>>
    /\ placeholders = <<>>
    /\ html = <<>>

ProtectMath ==
    /\ mathPc = "input"
    /\ LET r == protect_math(md_text)
       IN  /\ protected' = r.text
           /\ placeholders' = r.placeholders
    /\ mathPc' = "protected"
    /\ UNCHANGED <<md_text, html, mergeVars, batchVars>>

RestoreMath ==
    /\ mathPc = "protected"
    /\ html' = restore_math(protected, placeholders)
    /\ mathPc' = "restored"
    /\ UNCHANGED <<md_text, protected, placeholders, mergeVars, batchVars>>

MathNext == ProtectMath \/ RestoreMath

SpecMath == MathInit /\ [][MathNext]_vars

\* C4: restore_math applied to protect_math's output returns the original text.
C4_RoundTrip == mathPc = "restored" => html = md_text

(***************************************************************************)
(* The batch run: main, generate_aligned_pdf, generate_summary_pdf,        *)
(* render_html_to_pdf and the shared browser.  One thread runs it all; pc  *)
(* is its position.                                                        *)
(***************************************************************************)
name == Papers[paperAt]

\* The maps merge_translations can hand to the composer for a source of at
\* most MaxPages pages: any set of page numbers, 0 and MaxPages + 1 standing
\* for the numbers outside the source.  "md" is the page's markdown.
TranslationMaps == {[k \in keys |-> "md"] : keys \in SUBSET (0..MaxPages + 1)}

\* a composer that looks the next page up
HasEntryOffByOne(pg) == pg + 1 \in DOMAIN pages_dict

\* if pg_num in pages_dict
HasEntry(pg) == pg \in DOMAIN pages_dict

\* an untranslated page given the left half alone
BlankSpread(pg) ==
    [left |-> pg - 1, filled |-> FALSE, page |-> 0, index |-> 0, footer |-> pg]

\* a spread that always shows the first rendered page
TransSpreadFirstPage(pg, doc, t) ==
    [left |-> pg - 1, filled |-> TRUE, page |-> doc.page, index |-> 0,
     footer |-> pg]

\* _place_src(sp, src, pg_num - 1); show_pdf_page(right, trans_doc, t);
\* _divider(sp, pg_num)
TransSpread(pg, doc, t) ==
    [left |-> pg - 1, filled |-> TRUE, page |-> doc.page, index |-> t,
     footer |-> pg]

\* an overflow loop that leaves the last rendered page out
OverflowStopsEarly(t, k) == t + 1 < k

\* for tp in range(1, trans_pages)
OverflowContinues(t, k) == t < k

\* a browser launched by every render call
AlwaysLaunch == TRUE

\* if _browser is None
NeedsLaunch == browser = NoBrowser

ResetDoc ==
    /\ paperLen' = 0
    /\ pages_dict' = EmptyDict
    /\ src_n' = 0
    /\ out' = <<>>
    /\ pg_num' = 0
    /\ tp' = 0
    /\ trans_doc' = None
    /\ trans_pages' = EmptyDict
    /\ rendered' = {}

BatchInit ==
    /\ MathIdle
    /\ MergeIdle
    /\ mode \in {"all", "dual", "summary"}
    /\ pc = "start"
    /\ phase = "dual"
    /\ paperAt = 1
    /\ attempts = [k \in Phases \X {Papers[i] : i \in DOMAIN Papers} |-> 0]
    /\ skipped = {}
    /\ reported = {}
    /\ DocIdle
    /\ srcOpen = {}
    /\ transOpen = {}
    /\ tmpPdf = {}
    /\ htmlTmp = 0
    /\ saved = {}
    /\ browser = NoBrowser
    /\ launches = 0
    /\ alive = {}
    /\ renderUsed = {}
    /\ inFlight = 0
    /\ renderCalled = FALSE

(* ------------------------------- main --------------------------------- *)

\* if mode in ("all", "dual")
MainDualBegin ==
    /\ pc = "start"
    /\ pc' = IF mode \in {"all", "dual"} THEN "dual_loop" ELSE "dual_end"
    /\ phase' = "dual"
    /\ paperAt' = 1
    /\ UNCHANGED <<mode, attempts, skipped, reported, docVars, heldVars,
                   browserVars, mathVars, mergeVars>>

\* the PDF or the translation files are missing: continue
MainDualSkip ==
    /\ pc = "dual_loop"
    /\ paperAt <= Len(Papers)
    /\ skipped' = skipped \cup {<<"dual", name>>}
    /\ paperAt' = paperAt + 1
    /\ UNCHANGED <<mode, pc, phase, attempts, reported, docVars, heldVars,
                   browserVars, mathVars, mergeVars>>

\* try: generate_aligned_pdf(workspace, name)
MainDualCall ==
    /\ pc = "dual_loop"
    /\ paperAt <= Len(Papers)
    /\ attempts' = [attempts EXCEPT ![<<"dual", name>>] = @ + 1]
    /\ \E n \in 1..MaxPages : paperLen' = n
    /\ pc' = "ga_start"
    /\ UNCHANGED <<mode, phase, paperAt, skipped, reported, pages_dict, src_n,
                   out, pg_num, tp, trans_doc, trans_pages, rendered, heldVars,
                   browserVars, mathVars, mergeVars>>

MainDualEnd ==
    /\ pc = "dual_loop"
    /\ paperAt > Len(Papers)
    /\ pc' = "dual_end"
    /\ UNCHANGED <<mode, phase, paperAt, attempts, skipped, reported, docVars,
                   heldVars, browserVars, mathVars, mergeVars>>

\* if mode in ("all", "summary")
MainSummaryBegin ==
    /\ pc = "dual_end"
    /\ pc' = IF mode \in {"all", "summary"} THEN "summary_loop" ELSE "close"
    /\ phase' = "summary"
    /\ paperAt' = 1
    /\ UNCHANGED <<mode, attempts, skipped, reported, docVars, heldVars,
                   browserVars, mathVars, mergeVars>>

MainSummaryEnd ==
    /\ pc = "summary_loop"
    /\ paperAt > Len(Papers)
    /\ pc' = "close"
    /\ UNCHANGED <<mode, phase, paperAt, attempts, skipped, reported, docVars,
                   heldVars, browserVars, mathVars, mergeVars>>

\* an exception that leaves main
ExceptPropagates ==
    /\ pc = "raise"
    /\ pc' = "aborted"
    /\ UNCHANGED <<mode, phase, paperAt, attempts, skipped, reported, docVars,
                   heldVars, browserVars, mathVars, mergeVars>>

\* except Exception as e: print, traceback.print_exc(); the loop goes on
MainExcept ==
    /\ pc = "raise"
    /\ reported' = reported \cup {<<phase, name>>}
    /\ paperAt' = paperAt + 1
    /\ pc' = IF phase = "dual" THEN "dual_loop" ELSE "summary_loop"
    /\ ResetDoc
    /\ UNCHANGED <<mode, phase, attempts, skipped, heldVars, browserVars,
                   mathVars, mergeVars>>

\* close_browser()
CloseBrowser ==
    /\ pc = "close"
    /\ IF browser # NoBrowser
       THEN /\ alive' = alive \ {browser}
            /\ browser' = NoBrowser
       ELSE UNCHANGED <<alive, browser>>
    /\ pc' = "done"
    /\ UNCHANGED <<mode, phase, paperAt, attempts, skipped, reported, docVars,
                   heldVars, launches, renderUsed, inFlight, renderCalled,
                   mathVars, mergeVars>>

(* ------------------------ generate_aligned_pdf ------------------------- *)

\* pages_dict = merge_translations(...); if not pages_dict: return
GA_NoTranslation ==
    /\ pc = "ga_start"
    /\ pages_dict' = EmptyDict
    /\ pc' = "ga_skipped"
    /\ UNCHANGED <<mode, phase, paperAt, attempts, skipped, reported, paperLen,
                   src_n, out, pg_num, tp, trans_doc, trans_pages, rendered,
                   heldVars, browserVars, mathVars, mergeVars>>

\* src = fitz.open(pdf_file); src_n = len(src); out = fitz.open()
GA_Open ==
    /\ pc = "ga_start"
    /\ \E d \in TranslationMaps \ {EmptyDict} : pages_dict' = d
    /\ srcOpen' = srcOpen \cup {name}
    /\ src_n' = paperLen
    /\ out' = <<>>
    /\ pg_num' = 1
    /\ pc' = "ga_page"
    /\ UNCHANGED <<mode, phase, paperAt, attempts, skipped, reported, paperLen,
                   tp, trans_doc, trans_pages, rendered, transOpen, tmpPdf,
                   htmlTmp, saved, browserVars, mathVars, mergeVars>>

\* the page has a translation: md_to_html, then render_html_to_pdf is
\* entered and writes its temporary .html file
GA_Translated ==
    /\ pc = "ga_page"
    /\ pg_num <= src_n
    /\ HasEntry(pg_num)
    /\ rendered' = rendered \cup {pg_num}
    /\ htmlTmp' = htmlTmp + 1
    /\ inFlight' = inFlight + 1
    /\ renderCalled' = TRUE
    /\ pc' = "render_browser"
    /\ UNCHANGED <<mode, phase, paperAt, attempts, skipped, reported, paperLen,
                   pages_dict, src_n, out, pg_num, tp, trans_doc, trans_pages,
                   srcOpen, transOpen, tmpPdf, saved, browser, launches, alive,
                   renderUsed, mathVars, mergeVars>>

\* the page has no translation: one spread, the right half blank
GA_Untranslated ==
    /\ pc = "ga_page"
    /\ pg_num <= src_n
    /\ ~HasEntry(pg_num)
    /\ out' = Append(out, BlankSpread(pg_num))
    /\ pg_num' = pg_num + 1
    /\ UNCHANGED <<mode, pc, phase, paperAt, attempts, skipped, reported,
                   paperLen, pages_dict, src_n, tp, trans_doc, trans_pages,
                   rendered, heldVars, browserVars, mathVars, mergeVars>>

\* trans_doc = fitz.open(tmp_pdf); trans_pages = len(trans_doc)
GA_OpenTrans ==
    /\ pc = "ga_trans"
    /\ \E k \in 1..MaxK :
        /\ trans_doc' = [page |-> pg_num, n |-> k]
        /\ trans_pages' = DictSet(trans_pages, pg_num, k)
    /\ transOpen' = transOpen \cup {<<name, pg_num>>}
    /\ pc' = "ga_first"
    /\ UNCHANGED <<mode, phase, paperAt, attempts, skipped, reported, paperLen,
                   pages_dict, src_n, out, pg_num, tp, rendered, srcOpen,
                   tmpPdf, htmlTmp, saved, browserVars, mathVars, mergeVars>>

\* the first spread: the source page, and page 0 of the translation
GA_FirstSpread ==
    /\ pc = "ga_first"
    /\ out' = Append(out, TransSpread(pg_num, trans_doc, 0))
    /\ tp' = 1
    /\ pc' = "ga_overflow"
    /\ UNCHANGED <<mode, phase, paperAt, attempts, skipped, reported, paperLen,
                   pages_dict, src_n, pg_num, trans_doc, trans_pages, rendered,
                   heldVars, browserVars, mathVars, mergeVars>>

\* a compose step raises (new_page, show_pdf_page, ...): nothing in
\* generate_aligned_pdf catches it
GA_ComposeFails ==
    /\ pc = "ga_first"
    /\ pc' = "raise"
    /\ UNCHANGED <<mode, phase, paperAt, attempts, skipped, reported, docVars,
                   heldVars, browserVars, mathVars, mergeVars>>

\* an overflow spread: the source page again, and the next translation page
GA_OverflowSpread ==
    /\ pc = "ga_overflow"
    /\ OverflowContinues(tp, trans_doc.n)
    /\ out' = Append(out, TransSpread(pg_num, trans_doc, tp))
    /\ tp' = tp + 1
    /\ UNCHANGED <<mode, pc, phase, paperAt, attempts, skipped, reported,
                   paperLen, pages_dict, src_n, pg_num, trans_doc, trans_pages,
                   rendered, heldVars, browserVars, mathVars, mergeVars>>

\* trans_doc.close(); os.unlink(tmp_pdf)
GA_CloseTrans ==
    /\ pc = "ga_overflow"
    /\ ~OverflowContinues(tp, trans_doc.n)
    /\ transOpen' = transOpen \ {<<name, pg_num>>}
    /\ tmpPdf' = tmpPdf \ {<<name, pg_num>>}
    /\ trans_doc' = None
    /\ tp' = 0
    /\ pg_num' = pg_num + 1
    /\ pc' = "ga_page"
    /\ UNCHANGED <<mode, phase, paperAt, attempts, skipped, reported, paperLen,
                   pages_dict, src_n, out, trans_pages, rendered, srcOpen,
                   htmlTmp, saved, browserVars, mathVars, mergeVars>>

\* out.save(output_file); out.close(); src.close()
GA_Save ==
    /\ pc = "ga_page"
    /\ pg_num > src_n
    /\ saved' = saved \cup {<<"dual", name>>}
    /\ srcOpen' = srcOpen \ {name}
    /\ pc' = "ga_saved"
    /\ UNCHANGED <<mode, phase, paperAt, attempts, skipped, reported, docVars,
                   transOpen, tmpPdf, htmlTmp, browserVars, mathVars,
                   mergeVars>>

\* generate_aligned_pdf returns to the loop of main
GA_Return ==
    /\ pc \in {"ga_saved", "ga_skipped"}
    /\ paperAt' = paperAt + 1
    /\ pc' = "dual_loop"
    /\ ResetDoc
    /\ UNCHANGED <<mode, phase, attempts, skipped, reported, heldVars,
                   browserVars, mathVars, mergeVars>>

(* ------------------------ generate_summary_pdf ------------------------- *)

\* try: generate_summary_pdf(workspace, name): no <name>_annotated.md, return
SummarySkip ==
    /\ pc = "summary_loop"
    /\ paperAt <= Len(Papers)
    /\ attempts' = [attempts EXCEPT ![<<"summary", name>>] = @ + 1]
    /\ paperAt' = paperAt + 1
    /\ UNCHANGED <<mode, pc, phase, skipped, reported, docVars, heldVars,
                   browserVars, mathVars, mergeVars>>

\* try: generate_summary_pdf(workspace, name): md_to_html, then
\* render_html_to_pdf is entered and writes its temporary .html file
SummaryRender ==
    /\ pc = "summary_loop"
    /\ paperAt <= Len(Papers)
    /\ attempts' = [attempts EXCEPT ![<<"summary", name>>] = @ + 1]
    /\ htmlTmp' = htmlTmp + 1
    /\ inFlight' = inFlight + 1
    /\ renderCalled' = TRUE
    /\ pc' = "render_browser"
    /\ UNCHANGED <<mode, phase, paperAt, skipped, reported, docVars, srcOpen,
                   transOpen, tmpPdf, saved, browser, launches, alive,
                   renderUsed, mathVars, mergeVars>>

(* ------------------------- render_html_to_pdf -------------------------- *)

\* browser = get_browser(): launched when there is none; page = new_page()
RenderGetBrowser ==
    /\ pc = "render_browser"
    /\ IF NeedsLaunch
       THEN /\ launches' = launches + 1
            /\ browser' = launches + 1
            /\ alive' = alive \cup {launches + 1}
       ELSE UNCHANGED <<launches, browser, alive>>
    /\ renderUsed' = renderUsed \cup {browser'}
    /\ pc' = "render_pdf"
    /\ UNCHANGED <<mode, phase, paperAt, attempts, skipped, reported, docVars,
                   heldVars, inFlight, renderCalled, mathVars, mergeVars>>

\* sync_playwright().start() or chromium.launch() raises: _browser stays
\* None; finally: os.unlink(html_path)
RenderLaunchFails ==
    /\ pc = "render_browser"
    /\ NeedsLaunch
    /\ htmlTmp' = htmlTmp - 1
    /\ inFlight' = inFlight - 1
    /\ pc' = "raise"
    /\ UNCHANGED <<mode, phase, paperAt, attempts, skipped, reported, docVars,
                   srcOpen, transOpen, tmpPdf, saved, browser, launches, alive,
                   renderUsed, renderCalled, mathVars, mergeVars>>

\* page.goto, wait, page.pdf(path=output_path), page.close();
\* finally: os.unlink(html_path)
RenderPdf ==
    /\ pc = "render_pdf"
    /\ htmlTmp' = htmlTmp - 1
    /\ inFlight' = inFlight - 1
    /\ IF phase = "dual"
       THEN /\ tmpPdf' = tmpPdf \cup {<<name, pg_num>>}
            /\ pc' = "ga_trans"
            /\ UNCHANGED <<saved, paperAt>>
       ELSE /\ saved' = saved \cup {<<"summary", name>>}
            /\ paperAt' = paperAt + 1
            /\ pc' = "summary_loop"
            /\ UNCHANGED tmpPdf
    /\ UNCHANGED <<mode, phase, attempts, skipped, reported, docVars, srcOpen,
                   transOpen, browser, launches, alive, renderUsed,
                   renderCalled, mathVars, mergeVars>>

\* page.goto or page.pdf raises; finally: os.unlink(html_path)
RenderPdfFails ==
    /\ pc = "render_pdf"
    /\ htmlTmp' = htmlTmp - 1
    /\ inFlight' = inFlight - 1
    /\ pc' = "raise"
    /\ UNCHANGED <<mode, phase, paperAt, attempts, skipped, reported, docVars,
                   srcOpen, transOpen, tmpPdf, saved, browser, launches, alive,
                   renderUsed, renderCalled, mathVars, mergeVars>>

Next ==
    \/ MainDualBegin \/ MainDualSkip \/ MainDualCall \/ MainDualEnd
    \/ MainSummaryBegin \/ MainSummaryEnd \/ MainExcept \/ CloseBrowser
    \/ GA_NoTranslation \/ GA_Open \/ GA_Translated \/ GA_Untranslated
    \/ GA_OpenTrans \/ GA_FirstSpread \/ GA_ComposeFails \/ GA_OverflowSpread
    \/ GA_CloseTrans \/ GA_Save \/ GA_Return
    \/ SummarySkip \/ SummaryRender
    \/ RenderGetBrowser \/ RenderLaunchFails \/ RenderPdf \/ RenderPdfFails

Spec == BatchInit /\ [][Next]_vars

(***************************************************************************)
(* Properties of the batch run.                                            *)
(***************************************************************************)
SpreadsOf(p) == {i \in DOMAIN out : out[i].footer = p}

\* the rendered length K_p of every translated page up to p, 1 for the others
RECURSIVE ExpectedSpreads(_)
ExpectedSpreads(p) ==
    IF p = 0 THEN 0
    ELSE (IF p \in DOMAIN pages_dict THEN trans_pages[p] ELSE 1)
         + ExpectedSpreads(p - 1)

C2_Ordering ==
    /\ \A i \in DOMAIN out :
        /\ out[i].left = out[i].footer - 1
        /\ i > 1 => out[i - 1].footer <= out[i].footer
        /\ out[i].filled =>
            IF i > 1 /\ out[i - 1].footer = out[i].footer
            THEN out[i - 1].filled /\ out[i].index = out[i - 1].index + 1
            ELSE out[i].index = 0
    /\ pc = "ga_saved" =>
        /\ {out[i].footer : i \in DOMAIN out} = 1..src_n
        /\ \A p \in DOMAIN trans_pages :
            {out[i].index : i \in SpreadsOf(p)} = 0..(trans_pages[p] - 1)

\* C2 witness: a saved output where a two-page translation is followed by
\* the next source page.
C2_Witness ==
    /\ pc = "ga_saved"
    /\ \E i \in DOMAIN out :
        /\ i + 2 \in DOMAIN out
        /\ out[i].index = 0 /\ out[i].filled
        /\ out[i + 1].index = 1 /\ out[i + 1].footer = out[i].footer
        /\ out[i + 2].footer = out[i].footer + 1

MissingKeysTolerated ==
    \A p \in 1..paperLen :
        IF p \in DOMAIN pages_dict
        THEN /\ SpreadsOf(p) # {}
             /\ \A i \in SpreadsOf(p) : out[i].filled /\ out[i].page = p
        ELSE /\ Cardinality(SpreadsOf(p)) = 1
             /\ \A i \in SpreadsOf(p) : ~out[i].filled
             /\ p \notin rendered

\* C3 as claimed: whenever generate_aligned_pdf returns, every page without
\* an entry has exactly one spread, blank on the right, and every page with
\* an entry has its own translation on the right.
C3_MissingKeys ==
    pc \in {"ga_saved", "ga_skipped"} => MissingKeysTolerated

\* C3 amended: that holds when the TranslationMap is not empty; with an
\* empty map generate_aligned_pdf returns without emitting any SpreadPage.
C3_MissingKeysNonEmpty ==
    /\ pc = "ga_saved" => (pages_dict # EmptyDict /\ MissingKeysTolerated)
    /\ pc = "ga_skipped" => (pages_dict = EmptyDict /\ out = <<>> /\ src_n = 0)

\* C3 witness: keys {2, 4} on a 4-page source, no overflow: 4 SpreadPages,
\* pages 1 and 3 blank on the right, pages 2 and 4 filled.
C3_Witness ==
    /\ pc = "ga_saved"
    /\ src_n = 4
    /\ DOMAIN pages_dict = {2, 4}
    /\ Len(out) = 4
    /\ ~out[1].filled /\ out[2].filled /\ ~out[3].filled /\ out[4].filled

SelectedPhases ==
    CASE mode = "all" -> {"dual", "summary"}
      [] mode = "dual" -> {"dual"}
      [] mode = "summary" -> {"summary"}

\* C7: an exception of one document is caught and reported and the loop
\* goes on: the run never stops before its end, no document is attempted
\* twice in a mode, and at the end every document was, in every selected
\* mode, attempted once or passed over for a missing input.
C7_FailureIsolation ==
    /\ pc = "done" \/ ENABLED Next
    /\ \A k \in DOMAIN attempts : attempts[k] <= 1
    /\ \A k \in reported : attempts[k] = 1 /\ k \notin saved
    /\ pc = "done" =>
        \A k \in DOMAIN attempts :
            IF k[1] \in SelectedPhases
            THEN (attempts[k] = 1) # (k \in skipped)
            ELSE attempts[k] = 0 /\ k \notin skipped

\* C7 witness: in mode "all" the first document fails in the dual loop; the
\* second document's dual PDF and the first document's summary are written
\* all the same, and the run ends.
C7_Witness ==
    /\ pc = "done"
    /\ mode = "all"
    /\ <<"dual", "a">> \in reported
    /\ <<"dual", "b">> \in saved
    /\ <<"summary", "a">> \in saved

\* C8: when generate_aligned_pdf is left, by return or by exception, the
\* document's SourceDocument is closed and none of its RenderedTranslations
\* is open or left on disk.
C8_ResourcesReleased ==
    (pc \in {"ga_saved", "ga_skipped"} \/ (pc = "raise" /\ phase = "dual")) =>
        /\ name \notin srcOpen
        /\ \A p \in 0..MaxPages + 1 :
            <<name, p>> \notin transOpen /\ <<name, p>> \notin tmpPdf

\* C9: no browser before the first render call; at most one instance, the
\* one every render call uses; render calls one at a time; and at the end of
\* the batch the instance is closed and the handle reset.
C9_BrowserLifecycle ==
    /\ (launches > 0 \/ alive # {} \/ browser # NoBrowser) => renderCalled
    /\ Cardinality(alive) <= 1
    /\ Cardinality(renderUsed) <= 1
    /\ alive = (IF browser = NoBrowser THEN {} ELSE {browser})
    /\ pc = "render_pdf" => renderUsed = {browser} /\ browser # NoBrowser
    /\ inFlight = (IF pc \in {"render_browser", "render_pdf"} THEN 1 ELSE 0)
    /\ pc = "done" => browser = NoBrowser /\ alive = {}

\* C9 witness: a finished batch in which a document failed, two render
\* calls succeeded on the one instance launched, and that instance is closed.
C9_Witness ==
    /\ pc = "done"
    /\ reported # {}
    /\ <<"summary", "a">> \in saved
    /\ <<"summary", "b">> \in saved
    /\ launches = 1
    /\ renderUsed = {1}
    /\ browser = NoBrowser
    /\ alive = {}

====
